---- MODULE Spec2Model ----
(***************************************************************************)
(* A model of the kvs key-value store: the log-structured Store            *)
(* (src/engine/kvs.rs, src/engine/kvs/log.rs) with its segment files kept  *)
(* as byte sequences in the MessagePack layout the code relies on, and the *)
(* single-connection server in front of it (src/server.rs,                 *)
(* src/protocol.rs).                                                       *)
(***************************************************************************)
EXTENDS Integers, Sequences, FiniteSets, TLC

\* ------------------------------------------------------------------------
\* Bounds of the model.
\* ------------------------------------------------------------------------

\* Number of get/set/remove calls made on the engine in one behaviour.
MaxOps == 5

\* Number of Store::open calls after the first one.
MaxOpens == 1

\* Number of connections the server accepts in one behaviour.
MaxConns == 3

\* Number of times kvs-server is started in one behaviour.
MaxStarts == 2

\* The compaction threshold, scaled down from 1 MiB to a few records.
ThresholdScale == 6

\* Keys and values are strings, kept as sequences of bytes.
Keys == {<<107>>, <<106>>}

Values == {<<>>, <<118>>}

\* ------------------------------------------------------------------------
\* Program constants.
\* ------------------------------------------------------------------------

VALUE_OFFSET == 3

COMPACTION_THRESHOLD == ThresholdScale

\* ------------------------------------------------------------------------
\* Small helpers for maps (HashMap) and results.
\* ------------------------------------------------------------------------

EmptyMap == [x \in {} |-> x]

MapPut(m, k, v) == [x \in (DOMAIN m) \cup {k} |-> IF x = k THEN v ELSE m[x]]

MapDel(m, k) == [x \in (DOMAIN m) \ {k} |-> m[x]]

\* Result<..>: a tag and, for Some(value), the value.
Res(t) == [t |-> t, v |-> <<>>]

Some(v) == [t |-> "Some", v |-> v]

\* The bytes of f from offset `from` (0-based) up to, not including, `to`.
Slice(f, from, to) == [i \in 1..(to - from) |-> f[from + i]]

\* ------------------------------------------------------------------------
\* Record codec: MessagePack as rmp_serde writes a Command.
\*   Set{value, key} = fixarray(2) fixint(0) fixarray(2) str(value) str(key)
\*   Remove{key}     = fixarray(2) fixint(1) fixarray(1) str(key)
\* ------------------------------------------------------------------------

SetCmd(key, value) == [type |-> "Set", key |-> key, value |-> value]

RemoveCmd(key) == [type |-> "Remove", key |-> key, value |-> <<>>]

\* fixstr for up to 31 bytes, str8 above.
EncodeStr(s) ==
    IF Len(s) <= 31 THEN <<160 + Len(s)>> \o s ELSE <<217, Len(s)>> \o s

EncodeCommand(c) ==
    IF c.type = "Set"
    THEN <<146, 0, 146>> \o EncodeStr(c.value) \o EncodeStr(c.key)
    ELSE <<146, 1, 145>> \o EncodeStr(c.key)

\* Decoding one string at offset pos of f. st is "ok", "marker" (the read of
\* a marker byte hit end of file: InvalidMarkerRead) or "err" (any other
\* decode error: missing data bytes, wrong type).
DecodeStr(f, pos) ==
    IF pos >= Len(f) THEN [st |-> "marker", val |-> <<>>, next |-> pos]
    ELSE LET m == f[pos + 1] IN
         IF m >= 160 /\ m <= 191
         THEN LET n == m - 160 IN
              IF pos + 1 + n > Len(f)
              THEN [st |-> "err", val |-> <<>>, next |-> Len(f)]
              ELSE [st |-> "ok", val |-> Slice(f, pos + 1, pos + 1 + n),
                    next |-> pos + 1 + n]
         ELSE IF m = 217
         THEN IF pos + 2 > Len(f)
              THEN [st |-> "err", val |-> <<>>, next |-> Len(f)]
              ELSE LET n == f[pos + 2] IN
                   IF pos + 2 + n > Len(f)
                   THEN [st |-> "err", val |-> <<>>, next |-> Len(f)]
                   ELSE [st |-> "ok", val |-> Slice(f, pos + 2, pos + 2 + n),
                         next |-> pos + 2 + n]
         ELSE [st |-> "err", val |-> <<>>, next |-> pos + 1]

NoCmd(st, next) == [st |-> st, cmd |-> RemoveCmd(<<>>), next |-> next]

\* A variant of DecodeCommand that takes the two strings of a Set in the
\* order key, value.
DecodeCommand_swapped(f, pos) ==
    IF pos >= Len(f) THEN NoCmd("marker", pos)
    ELSE IF f[pos + 1] # 146 THEN NoCmd("err", pos + 1)
    ELSE IF pos + 1 >= Len(f) THEN NoCmd("marker", pos + 1)
    ELSE IF f[pos + 2] \notin {0, 1} THEN NoCmd("err", pos + 2)
    ELSE IF pos + 2 >= Len(f) THEN NoCmd("marker", pos + 2)
    ELSE IF f[pos + 2] = 0
    THEN IF f[pos + 3] # 146 THEN NoCmd("err", pos + 3)
         ELSE LET v == DecodeStr(f, pos + 3) IN
              IF v.st # "ok" THEN NoCmd(v.st, v.next)
              ELSE LET k == DecodeStr(f, v.next) IN
                   IF k.st # "ok" THEN NoCmd(k.st, k.next)
                   ELSE [st |-> "ok", cmd |-> SetCmd(v.val, k.val),
                         next |-> k.next]
    ELSE IF f[pos + 3] # 145 THEN NoCmd("err", pos + 3)
         ELSE LET k == DecodeStr(f, pos + 3) IN
              IF k.st # "ok" THEN NoCmd(k.st, k.next)
              ELSE [st |-> "ok", cmd |-> RemoveCmd(k.val), next |-> k.next]

\* Decoding one Command at offset pos of f, marker by marker.
DecodeCommand(f, pos) ==
    IF pos >= Len(f) THEN NoCmd("marker", pos)
    ELSE IF f[pos + 1] # 146 THEN NoCmd("err", pos + 1)
    ELSE IF pos + 1 >= Len(f) THEN NoCmd("marker", pos + 1)
    ELSE IF f[pos + 2] \notin {0, 1} THEN NoCmd("err", pos + 2)
    ELSE IF pos + 2 >= Len(f) THEN NoCmd("marker", pos + 2)
    ELSE IF f[pos + 2] = 0
    THEN IF f[pos + 3] # 146 THEN NoCmd("err", pos + 3)
         ELSE LET v == DecodeStr(f, pos + 3) IN
              IF v.st # "ok" THEN NoCmd(v.st, v.next)
              ELSE LET k == DecodeStr(f, v.next) IN
                   IF k.st # "ok" THEN NoCmd(k.st, k.next)
                   ELSE [st |-> "ok", cmd |-> SetCmd(k.val, v.val),
                         next |-> k.next]
    ELSE IF f[pos + 3] # 145 THEN NoCmd("err", pos + 3)
         ELSE LET k == DecodeStr(f, pos + 3) IN
              IF k.st # "ok" THEN NoCmd(k.st, k.next)
              ELSE [st |-> "ok", cmd |-> RemoveCmd(k.val), next |-> k.next]

\* ------------------------------------------------------------------------
\* Segment reader and writer (src/engine/kvs/log.rs).
\* ------------------------------------------------------------------------

\* What an injected I/O failure hits: nothing, a seek, a read, a write that
\* stops after n bytes, the opening of a file, the removal of a file.
NoFault == [kind |-> "none", n |-> 0]

Fault(kind, n) == [kind |-> kind, n |-> n]

\* A variant of OffsetFrom that forgets the three framing bytes.
OffsetFrom_raw(offset) == offset

\* impl From<u64> for Offset: the offset of a record becomes the offset of
\* its value.
OffsetFrom(offset) == offset + VALUE_OFFSET

\* Reader::read_value: seek to the offset and decode one string.
read_value(f, offset, fault) ==
    IF fault.kind = "seek" THEN Res("Io")
    ELSE IF fault.kind = "read" THEN Res("Decode")
    ELSE LET d == DecodeStr(f, offset) IN
         IF d.st = "ok" THEN Some(d.val) ELSE Res("Decode")

\* Reader::load and ReaderIterator::next: the items the iterator yields from
\* offset pos on. A decode error that is InvalidMarkerRead ends the
\* iteration; any other decode error is yielded as an Err item.
RECURSIVE LoadFrom(_, _)
LoadFrom(f, pos) ==
    LET d == DecodeCommand(f, pos) IN
    IF d.st = "ok"
    THEN <<[ok |-> TRUE, cmd |-> d.cmd, offset |-> OffsetFrom(pos),
            length |-> d.next - pos]>> \o LoadFrom(f, d.next)
    ELSE IF d.st = "marker" THEN <<>>
    ELSE <<[ok |-> FALSE, cmd |-> d.cmd, offset |-> 0, length |-> 0]>>

load(f) == LoadFrom(f, 0)

\* The file after writing bytes b at position pos (pos <= Len(f)).
WriteAt(f, pos, b) ==
    LET end == IF pos + Len(b) > Len(f) THEN pos + Len(b) ELSE Len(f) IN
    [i \in 1..end |-> IF i > pos /\ i <= pos + Len(b) THEN b[i - pos] ELSE f[i]]

\* A variant of WriterWrite that writes from the start of the file.
WriterWrite_from_start(f, woffset, command, fault) ==
    LET b == EncodeCommand(command) IN
    IF fault.kind = "write"
    THEN [res |-> Res("Encode"), file |-> WriteAt(f, 0, SubSeq(b, 1, fault.n)),
          writer |-> woffset + fault.n, offset |-> 0, length |-> 0]
    ELSE [res |-> Res("Ok"), file |-> WriteAt(f, 0, b),
          writer |-> woffset + Len(b), offset |-> OffsetFrom(woffset),
          length |-> Len(b)]

\* Writer::write: serialise the command at the writer's offset. A failing
\* write leaves the first fault.n bytes in the file and the offset advanced
\* by them; the error is an encode error.
WriterWrite(f, woffset, command, fault) ==
    LET b == EncodeCommand(command) IN
    IF fault.kind = "write"
    THEN [res |-> Res("Encode"), file |-> WriteAt(f, woffset, SubSeq(b, 1, fault.n)),
          writer |-> woffset + fault.n, offset |-> 0, length |-> 0]
    ELSE [res |-> Res("Ok"), file |-> WriteAt(f, woffset, b),
          writer |-> woffset + Len(b), offset |-> OffsetFrom(woffset),
          length |-> Len(b)]

\* The short writes a failing write of command can leave behind.
ShortWrites(command) == 0..(Len(EncodeCommand(command)) - 1)

\* ------------------------------------------------------------------------
\* Store (src/engine/kvs.rs).
\* ------------------------------------------------------------------------

IndexEntry(li, offset, length) ==
    [log_index |-> li, offset |-> offset, length |-> length]

\* The fields of a Store that has been dropped.
NoStore ==
    [log_index |-> 0, writer |-> 0, readers |-> {}, index |-> EmptyMap,
     uncompacted |-> 0]

SetMin(S) == CHOOSE x \in S : \A y \in S : x <= y

RECURSIVE SortAscending(_)
SortAscending(S) ==
    IF S = {} THEN <<>> ELSE <<SetMin(S)>> \o SortAscending(S \ {SetMin(S)})

Reverse(sq) == [i \in 1..Len(sq) |-> sq[Len(sq) + 1 - i]]

\* A variant of find_log_indices that sorts the wrong way round.
find_log_indices_descending(fls) == Reverse(SortAscending(DOMAIN fls))

\* find_log_indices: the indices of the segment files, sorted ascending.
find_log_indices(fls) == SortAscending(DOMAIN fls)

\* A variant of open_entry in which a replayed Set does not replace the
\* entry the key already has.
open_entry_keeps_old(li, idx, entry) ==
    IF entry.cmd.type = "Set"
    THEN LET new_entry == IndexEntry(li, entry.offset, entry.length) IN
         IF entry.cmd.key \in DOMAIN idx
         THEN [index |-> idx, dead |-> new_entry.length]
         ELSE [index |-> MapPut(idx, entry.cmd.key, new_entry), dead |-> 0]
    ELSE [index |-> MapDel(idx, entry.cmd.key),
          dead |-> entry.length +
                   (IF entry.cmd.key \in DOMAIN idx
                    THEN idx[entry.cmd.key].length ELSE 0)]

\* A variant of open_entry in which a replayed Remove leaves the entry in
\* the index.
open_entry_keeps_removed(li, idx, entry) ==
    IF entry.cmd.type = "Set"
    THEN LET new_entry == IndexEntry(li, entry.offset, entry.length) IN
         IF entry.cmd.key \in DOMAIN idx
         THEN [index |-> MapPut(idx, entry.cmd.key, new_entry),
               dead |-> new_entry.length]
         ELSE [index |-> MapPut(idx, entry.cmd.key, new_entry), dead |-> 0]
    ELSE [index |-> idx,
          dead |-> entry.length +
                   (IF entry.cmd.key \in DOMAIN idx
                    THEN idx[entry.cmd.key].length ELSE 0)]

\* open_entry: replay of one record. After mem::replace the reference
\* old_entry holds the new entry, so the length returned for a replaced Set
\* is the length of the new record.
open_entry(li, idx, entry) ==
    IF entry.cmd.type = "Set"
    THEN LET new_entry == IndexEntry(li, entry.offset, entry.length) IN
         IF entry.cmd.key \in DOMAIN idx
         THEN [index |-> MapPut(idx, entry.cmd.key, new_entry),
               dead |-> new_entry.length]
         ELSE [index |-> MapPut(idx, entry.cmd.key, new_entry), dead |-> 0]
    ELSE [index |-> MapDel(idx, entry.cmd.key),
          dead |-> entry.length +
                   (IF entry.cmd.key \in DOMAIN idx
                    THEN idx[entry.cmd.key].length ELSE 0)]

\* The inner loop of Store::open over the entries of one segment.
RECURSIVE ReplayEntries(_, _, _, _)
ReplayEntries(li, entries, i, acc) ==
    IF i > Len(entries) \/ ~acc.ok THEN acc
    ELSE IF ~entries[i].ok THEN [acc EXCEPT !.ok = FALSE]
    ELSE LET r == open_entry(li, acc.index, entries[i]) IN
         ReplayEntries(li, entries, i + 1,
                       [acc EXCEPT !.index = r.index,
                                   !.uncompacted = acc.uncompacted + r.dead])

\* The outer loop of Store::open over the segments.
RECURSIVE ReplaySegments(_, _, _, _)
ReplaySegments(fls, log_indices, j, acc) ==
    IF j > Len(log_indices) \/ ~acc.ok THEN acc
    ELSE ReplaySegments(fls, log_indices, j + 1,
                        ReplayEntries(log_indices[j], load(fls[log_indices[j]]), 1, acc))

\* Store::open on the directory fls.
open(fls) ==
    LET log_indices == find_log_indices(fls)
        replay == ReplaySegments(fls, log_indices, 1,
                      [index |-> EmptyMap, uncompacted |-> 0, ok |-> TRUE])
        write_index == IF log_indices = <<>> THEN 0
                       ELSE log_indices[Len(log_indices)]
        fls2 == IF write_index \in DOMAIN fls THEN fls
                ELSE MapPut(fls, write_index, <<>>)
    IN IF ~replay.ok
       THEN [res |-> Res("Decode"), files |-> fls, self |-> NoStore]
       ELSE [res |-> Res("Ok"), files |-> fls2,
             self |-> [log_index |-> write_index,
                       writer |-> Len(fls2[write_index]),
                       readers |-> IF log_indices = <<>> THEN {write_index}
                                   ELSE DOMAIN fls,
                       index |-> replay.index,
                       uncompacted |-> replay.uncompacted]]

\* A variant of get for which a key with no entry is an error.
get_absent_is_error(self, fls, key, fault) ==
    IF key \notin DOMAIN self.index THEN Res("KeyNotFound")
    ELSE LET entry == self.index[key] IN
         IF entry.log_index \notin self.readers THEN Res("Panic")
         ELSE read_value(fls[entry.log_index], entry.offset, fault)

\* Store::get.
get(self, fls, key, fault) ==
    IF key \notin DOMAIN self.index THEN Res("None")
    ELSE LET entry == self.index[key] IN
         IF entry.log_index \notin self.readers THEN Res("Panic")
         ELSE read_value(fls[entry.log_index], entry.offset, fault)

\* A variant of set that takes the old entry out of the index and puts the
\* new one in only when there was none.
set_drops_overwritten(self, fls, key, value, fault) ==
    LET w == WriterWrite(fls[self.log_index], self.writer,
                         SetCmd(key, value), fault)
        fls2 == [fls EXCEPT ![self.log_index] = w.file]
    IN IF w.res.t # "Ok"
       THEN [res |-> w.res, files |-> fls2, compact |-> FALSE,
             self |-> [self EXCEPT !.writer = w.writer]]
       ELSE LET new_entry == IndexEntry(self.log_index, w.offset, w.length)
                unc == IF key \in DOMAIN self.index
                       THEN self.uncompacted + self.index[key].length
                       ELSE self.uncompacted
            IN [res |-> Res("Ok"), files |-> fls2,
                compact |-> unc > COMPACTION_THRESHOLD,
                self |-> [self EXCEPT !.writer = w.writer,
                                      !.index = IF key \in DOMAIN self.index
                                                THEN MapDel(self.index, key)
                                                ELSE MapPut(self.index, key, new_entry),
                                      !.uncompacted = unc]]

\* A variant of set that does not count the bytes of the entry it replaces.
set_counts_nothing(self, fls, key, value, fault) ==
    LET w == WriterWrite(fls[self.log_index], self.writer,
                         SetCmd(key, value), fault)
        fls2 == [fls EXCEPT ![self.log_index] = w.file]
    IN IF w.res.t # "Ok"
       THEN [res |-> w.res, files |-> fls2, compact |-> FALSE,
             self |-> [self EXCEPT !.writer = w.writer]]
       ELSE LET new_entry == IndexEntry(self.log_index, w.offset, w.length)
                unc == self.uncompacted
            IN [res |-> Res("Ok"), files |-> fls2,
                compact |-> unc > COMPACTION_THRESHOLD,
                self |-> [self EXCEPT !.writer = w.writer,
                                      !.index = MapPut(self.index, key, new_entry),
                                      !.uncompacted = unc]]

\* A variant of set that goes on into compact as soon as uncompacted
\* reaches the threshold.
set_compacts_at_threshold(self, fls, key, value, fault) ==
    LET w == WriterWrite(fls[self.log_index], self.writer,
                         SetCmd(key, value), fault)
        fls2 == [fls EXCEPT ![self.log_index] = w.file]
    IN IF w.res.t # "Ok"
       THEN [res |-> w.res, files |-> fls2, compact |-> FALSE,
             self |-> [self EXCEPT !.writer = w.writer]]
       ELSE LET new_entry == IndexEntry(self.log_index, w.offset, w.length)
                unc == IF key \in DOMAIN self.index
                       THEN self.uncompacted + self.index[key].length
                       ELSE self.uncompacted
            IN [res |-> Res("Ok"), files |-> fls2,
                compact |-> unc >= COMPACTION_THRESHOLD,
                self |-> [self EXCEPT !.writer = w.writer,
                                      !.index = MapPut(self.index, key, new_entry),
                                      !.uncompacted = unc]]

\* A variant of set that puts the new entry into the index before it
\* writes, so that a failed write leaves it there.
set_indexes_first(self, fls, key, value, fault) ==
    LET w == WriterWrite(fls[self.log_index], self.writer,
                         SetCmd(key, value), fault)
        fls2 == [fls EXCEPT ![self.log_index] = w.file]
        new_entry == IndexEntry(self.log_index, OffsetFrom(self.writer),
                                Len(EncodeCommand(SetCmd(key, value))))
    IN IF w.res.t # "Ok"
       THEN [res |-> w.res, files |-> fls2, compact |-> FALSE,
             self |-> [self EXCEPT !.writer = w.writer,
                                   !.index = MapPut(self.index, key, new_entry)]]
       ELSE LET unc == IF key \in DOMAIN self.index
                       THEN self.uncompacted + self.index[key].length
                       ELSE self.uncompacted
            IN [res |-> Res("Ok"), files |-> fls2,
                compact |-> unc > COMPACTION_THRESHOLD,
                self |-> [self EXCEPT !.writer = w.writer,
                                      !.index = MapPut(self.index, key, new_entry),
                                      !.uncompacted = unc]]

\* Store::set up to the threshold test; compact is true when the call goes
\* on into Store::compact.
set(self, fls, key, value, fault) ==
    LET w == WriterWrite(fls[self.log_index], self.writer,
                         SetCmd(key, value), fault)
        fls2 == [fls EXCEPT ![self.log_index] = w.file]
    IN IF w.res.t # "Ok"
       THEN [res |-> w.res, files |-> fls2, compact |-> FALSE,
             self |-> [self EXCEPT !.writer = w.writer]]
       ELSE LET new_entry == IndexEntry(self.log_index, w.offset, w.length)
                unc == IF key \in DOMAIN self.index
                       THEN self.uncompacted + self.index[key].length
                       ELSE self.uncompacted
            IN [res |-> Res("Ok"), files |-> fls2,
                compact |-> unc > COMPACTION_THRESHOLD,
                self |-> [self EXCEPT !.writer = w.writer,
                                      !.index = MapPut(self.index, key, new_entry),
                                      !.uncompacted = unc]]

\* A variant of remove that appends the record but keeps the index entry.
remove_keeps_entry(self, fls, key, fault) ==
    IF key \notin DOMAIN self.index
    THEN [res |-> Res("KeyNotFound"), files |-> fls, self |-> self]
    ELSE LET w == WriterWrite(fls[self.log_index], self.writer,
                              RemoveCmd(key), fault)
             fls2 == [fls EXCEPT ![self.log_index] = w.file]
         IN IF w.res.t # "Ok"
            THEN [res |-> w.res, files |-> fls2,
                  self |-> [self EXCEPT !.writer = w.writer]]
            ELSE [res |-> Res("Ok"), files |-> fls2,
                  self |-> [self EXCEPT !.writer = w.writer,
                                        !.uncompacted = self.uncompacted +
                                                        self.index[key].length]]

\* A variant of remove that appends the record before it looks the key up.
remove_unchecked(self, fls, key, fault) ==
    LET w == WriterWrite(fls[self.log_index], self.writer, RemoveCmd(key), fault)
        fls2 == [fls EXCEPT ![self.log_index] = w.file]
    IN IF w.res.t # "Ok"
       THEN [res |-> w.res, files |-> fls2,
             self |-> [self EXCEPT !.writer = w.writer]]
       ELSE IF key \notin DOMAIN self.index
       THEN [res |-> Res("KeyNotFound"), files |-> fls2,
             self |-> [self EXCEPT !.writer = w.writer]]
       ELSE [res |-> Res("Ok"), files |-> fls2,
             self |-> [self EXCEPT !.writer = w.writer,
                                   !.index = MapDel(self.index, key),
                                   !.uncompacted = self.uncompacted +
                                                   self.index[key].length]]

\* Store::remove.
remove(self, fls, key, fault) ==
    IF key \notin DOMAIN self.index
    THEN [res |-> Res("KeyNotFound"), files |-> fls, self |-> self]
    ELSE LET w == WriterWrite(fls[self.log_index], self.writer,
                              RemoveCmd(key), fault)
             fls2 == [fls EXCEPT ![self.log_index] = w.file]
         IN IF w.res.t # "Ok"
            THEN [res |-> w.res, files |-> fls2,
                  self |-> [self EXCEPT !.writer = w.writer]]
            ELSE [res |-> Res("Ok"), files |-> fls2,
                  self |-> [self EXCEPT !.writer = w.writer,
                                        !.index = MapDel(self.index, key),
                                        !.uncompacted = self.uncompacted +
                                                        self.index[key].length]]

\* ------------------------------------------------------------------------
\* State.
\* ------------------------------------------------------------------------

VARIABLES
    files,              \* the directory: segment index -> bytes of <index>.log
    opened,             \* whether a Store handle exists
    log_index,          \* Store.log_index
    writer,             \* Store.writer: the offset of the active writer
    readers,            \* Store.readers: the segment indices with a reader
    index,              \* Store.index: key -> IndexEntry
    uncompacted,        \* Store.uncompacted
    pc,                 \* where the running call is: "idle" or a step of compact
    compaction_index,   \* compact: compaction_index
    compaction_writer,  \* compact: the offset of compaction_writer
    todo,               \* compact: the keys index.iter_mut() has yet to yield
    old_log_indices,    \* compact: the segments still to delete
    ret,                \* the last call and its result
    nops,               \* number of get/set/remove calls made
    opens,              \* number of Store::open calls made after the first
    kv,                 \* history: key -> value of the last applied set, if any
    released,           \* history: how the last handle went away
    released_get,       \* history: get results when the last handle went away
    compact_get,        \* history: get results when the running compact began
    ever_set,           \* history: the keys ever passed to set
    conn,               \* the server's current connection
    client,             \* the client's current call
    other,              \* a second Store handle on the same directory
    engine_file,        \* the contents of the directory's "engine" file
    startup             \* what the last start of kvs-server came to

storeVars == <<opened, log_index, writer, readers, index, uncompacted>>

compactVars == <<compaction_index, compaction_writer, todo, old_log_indices>>

historyVars == <<kv, released, released_get, compact_get, ever_set>>

envVars == <<client, other, engine_file, startup>>

vars == <<files, storeVars, pc, compactVars, ret, nops, opens, historyVars, conn,
          envVars>>

Self ==
    [log_index |-> log_index, writer |-> writer, readers |-> readers,
     index |-> index, uncompacted |-> uncompacted]

SetSelf(s) ==
    /\ log_index' = s.log_index
    /\ writer' = s.writer
    /\ readers' = s.readers
    /\ index' = s.index
    /\ uncompacted' = s.uncompacted

Call(op, key, value, res) == [op |-> op, key |-> key, value |-> value, res |-> res]

\* What get returns for every key, with no I/O failure.
GetAll(self, fls) == [k \in Keys |-> get(self, fls, k, NoFault)]

NoGets == [k \in Keys |-> Res("None")]

\* The server's connection slot: id counts the connections accepted, calls
\* the engine calls made for this one, result is what handle_stream (or
\* accept) returned, failed whether an earlier turn of the loop met an error.
NoConn == [id |-> 0, state |-> "none",
           request |-> [type |-> "Get", key |-> <<>>, value |-> <<>>],
           responses |-> <<>>, calls |-> 0, result |-> "Ok", failed |-> FALSE]

NoClient == [state |-> "idle", op |-> "none", key |-> <<>>, value |-> <<>>,
             result |-> Res("Pending"), exit |-> 0, out |-> Res("")]

NoOther == [opened |-> FALSE, self |-> NoStore]

NoStartup == [engine |-> "none", res |-> "none", running |-> FALSE]

ResetCompact ==
    /\ compaction_index' = 0
    /\ compaction_writer' = 0
    /\ todo' = {}
    /\ old_log_indices' = {}
    /\ compact_get' = NoGets

\* The state after Store::open on a directory that does not exist yet.
Init ==
    LET o == open(EmptyMap) IN
    /\ files = o.files
    /\ opened = TRUE
    /\ log_index = o.self.log_index
    /\ writer = o.self.writer
    /\ readers = o.self.readers
    /\ index = o.self.index
    /\ uncompacted = o.self.uncompacted
    /\ pc = "idle"
    /\ compaction_index = 0
    /\ compaction_writer = 0
    /\ todo = {}
    /\ old_log_indices = {}
    /\ ret = Call("open", <<>>, <<>>, o.res)
    /\ nops = 0
    /\ opens = 0
    /\ kv = NoGets
    /\ released = "never"
    /\ released_get = NoGets
    /\ compact_get = NoGets
    /\ ever_set = {}
    /\ conn = NoConn
    /\ client = NoClient
    /\ other = NoOther
    /\ engine_file = "none"
    /\ startup = NoStartup

\* ------------------------------------------------------------------------
\* The calls on a Store handle. fault is the I/O failure the call meets.
\* ------------------------------------------------------------------------

CanCall == opened /\ pc = "idle" /\ nops < MaxOps

CallGet(key, fault) ==
    /\ CanCall
    /\ ret' = Call("get", key, <<>>, get(Self, files, key, fault))
    /\ nops' = nops + 1
    /\ UNCHANGED <<files, storeVars, pc, compactVars, opens, historyVars>>

CallSet(key, value, fault) ==
    /\ CanCall
    /\ LET r == set(Self, files, key, value, fault) IN
       /\ files' = r.files
       /\ SetSelf(r.self)
       /\ pc' = IF r.compact THEN "compact" ELSE "idle"
       /\ ret' = Call("set", key, value, IF r.compact THEN Res("Pending") ELSE r.res)
       /\ kv' = IF r.res.t = "Ok" THEN [kv EXCEPT ![key] = Some(value)] ELSE kv
       /\ compact_get' = IF r.compact THEN GetAll(r.self, r.files) ELSE compact_get
    /\ nops' = nops + 1
       /\ ever_set' = ever_set \cup {key}
    /\ UNCHANGED <<opened, compactVars, opens, released, released_get>>

CallRemove(key, fault) ==
    /\ CanCall
    /\ LET r == remove(Self, files, key, fault) IN
       /\ files' = r.files
       /\ SetSelf(r.self)
       /\ ret' = Call("remove", key, <<>>, r.res)
       /\ kv' = IF r.res.t = "Ok" THEN [kv EXCEPT ![key] = Res("None")] ELSE kv
    /\ nops' = nops + 1
    /\ UNCHANGED <<opened, pc, compactVars, opens, released, released_get, compact_get,
                   ever_set>>

\* ------------------------------------------------------------------------
\* Store::compact, step by step. It runs inside set: nothing else runs on
\* the handle until it has returned.
\* ------------------------------------------------------------------------

\* compact returns early with an error; set returns it.
CompactFail(err) ==
    /\ pc' = "idle"
    /\ ret' = [ret EXCEPT !.res = err]
    /\ ResetCompact

\* open_writer: the file is created when it does not exist.
Created(fls, li) == IF li \in DOMAIN fls THEN fls ELSE MapPut(fls, li, <<>>)

\* Lines 111-113: the file, writer and reader of the compacted log. An open
\* failure with n = 0 is OpenOptions::open failing (nothing is created);
\* with n > 0 the file was created and Writer::init or open_reader failed.
CompactOpenC(fault) ==
    /\ opened /\ pc = "compact"
    /\ IF fault.kind = "open"
       THEN /\ CompactFail(Res("Io"))
            /\ files' = IF fault.n = 0 THEN files ELSE Created(files, log_index + 1)
            /\ UNCHANGED <<storeVars, nops, opens, kv, ever_set, released, released_get>>
       ELSE /\ compaction_index' = log_index + 1
            /\ files' = Created(files, log_index + 1)
            /\ compaction_writer' = Len(files'[log_index + 1])
            /\ readers' = readers \cup {log_index + 1}
            /\ pc' = "compact_n"
            /\ UNCHANGED <<opened, log_index, writer, index, uncompacted, todo,
                           old_log_indices, ret, nops, opens, historyVars>>
    /\ UNCHANGED <<conn, envVars>>

\* A variant of iter_keys that stops one pair short.
iter_keys_one_short(idx) ==
    IF DOMAIN idx = {} THEN {} ELSE DOMAIN idx \ {CHOOSE k \in DOMAIN idx : TRUE}

\* Line 125: the keys of the pairs self.index.iter_mut() yields.
iter_keys(idx) == DOMAIN idx

\* Lines 116-120: the file for future commands becomes the active one. An
\* open failure with n = 0 is OpenOptions::open failing at line 117, with
\* n = 1 Writer::init failing there after the file was created, and with
\* n = 2 open_reader failing at line 120, after lines 118-119 have made N
\* the active log.
CompactOpenN(fault) ==
    /\ opened /\ pc = "compact_n"
    /\ LET write_index == compaction_index + 1 IN
       IF fault.kind = "open"
       THEN /\ CompactFail(Res("Io"))
            /\ files' = IF fault.n = 0 THEN files ELSE Created(files, write_index)
            /\ log_index' = IF fault.n = 2 THEN write_index ELSE log_index
            /\ writer' = IF fault.n = 2 THEN Len(files'[write_index]) ELSE writer
            /\ UNCHANGED <<opened, readers, index, uncompacted, nops, opens, kv,
                           ever_set, released, released_get>>
       ELSE /\ files' = Created(files, write_index)
            /\ log_index' = write_index
            /\ writer' = Len(files'[write_index])
            /\ readers' = readers \cup {write_index}
            /\ todo' = iter_keys(index)
            /\ pc' = "compact_loop"
            /\ UNCHANGED <<opened, index, uncompacted, compaction_index,
                           compaction_writer, old_log_indices, ret, nops, opens,
                           historyVars>>
    /\ UNCHANGED <<conn, envVars>>

\* Lines 125-137: one iteration of the loop over the index, for a key the
\* iterator yields next (a HashMap iterates in no particular order).
CompactRewrite(key, fault) ==
    /\ opened /\ pc = "compact_loop" /\ key \in todo
    /\ LET entry == index[key]
           value == IF entry.log_index \in readers
                    THEN read_value(files[entry.log_index], entry.offset, fault)
                    ELSE Res("Panic")
           w == WriterWrite(files[compaction_index], compaction_writer,
                            SetCmd(key, value.v), fault)
       IN IF value.t # "Some"
          THEN /\ CompactFail(value)
               /\ UNCHANGED <<files, storeVars, nops, opens, kv, ever_set, released, released_get>>
          ELSE /\ files' = [files EXCEPT ![compaction_index] = w.file]
               /\ compaction_writer' = IF w.res.t = "Ok" THEN w.writer ELSE 0
               /\ IF w.res.t # "Ok"
                  THEN /\ pc' = "idle"
                       /\ ret' = [ret EXCEPT !.res = w.res]
                       /\ compaction_index' = 0
                       /\ todo' = {}
                       /\ compact_get' = NoGets
                       /\ UNCHANGED index
                  ELSE /\ index' = [index EXCEPT ![key] =
                                       IndexEntry(compaction_index, w.offset, w.length)]
                       /\ todo' = todo \ {key}
                       /\ UNCHANGED <<pc, ret, compaction_index, compact_get>>
               /\ UNCHANGED <<opened, log_index, writer, readers, uncompacted,
                              old_log_indices, nops, opens, kv, ever_set, released, released_get>>
    /\ UNCHANGED <<conn, envVars>>

\* A variant of old_logs that leaves out the log that was active.
old_logs_but_active(rdrs, ci) == {li \in rdrs : li < ci - 1}

\* Lines 140-145: the keys of readers filtered by log_index < compaction_index.
old_logs(rdrs, ci) == {li \in rdrs : li < ci}

\* Lines 140-145: the readers below the compaction index are the old logs.
CompactCollect ==
    /\ opened /\ pc = "compact_loop" /\ todo = {}
    /\ old_log_indices' = old_logs(readers, compaction_index)
    /\ pc' = "compact_delete"
    /\ UNCHANGED <<files, storeVars, compaction_index, compaction_writer, todo,
                   ret, nops, opens, historyVars, conn, envVars>>

\* Lines 146-149: one iteration of the deletion loop (the keys of a HashMap
\* come in no particular order).
CompactDelete(old_index, fault) ==
    /\ opened /\ pc = "compact_delete" /\ old_index \in old_log_indices
    /\ IF fault.kind = "unlink"
       THEN /\ CompactFail(Res("Io"))
            /\ UNCHANGED <<files, storeVars, nops, opens, kv, ever_set, released, released_get>>
       ELSE /\ files' = MapDel(files, old_index)
            /\ readers' = readers \ {old_index}
            /\ old_log_indices' = old_log_indices \ {old_index}
            /\ UNCHANGED <<opened, log_index, writer, index, uncompacted, pc,
                           compaction_index, compaction_writer, todo, ret, nops,
                           opens, historyVars>>
    /\ UNCHANGED <<conn, envVars>>

\* Lines 153-155: the counter is reset and compact, then set, return Ok.
CompactFinish ==
    /\ opened /\ pc = "compact_delete" /\ old_log_indices = {}
    /\ uncompacted' = 0
    /\ pc' = "idle"
    /\ ret' = [ret EXCEPT !.res = Res("Ok")]
    /\ ResetCompact
    /\ UNCHANGED <<files, opened, log_index, writer, readers, index, nops, opens,
                   kv, ever_set, released, released_get, conn, envVars>>

\* ------------------------------------------------------------------------
\* The handle goes away and comes back: drop, process crash, Store::open.
\* ------------------------------------------------------------------------

Dropped(how, gets) ==
    /\ opened' = FALSE
    /\ SetSelf(NoStore)
    /\ pc' = "idle"
    /\ ret' = Call(how, <<>>, <<>>, Res("Ok"))
    /\ released' = how
    /\ released_get' = gets
    /\ ResetCompact
    /\ UNCHANGED <<opens, kv, ever_set, conn, envVars>>

\* The Store is released between two calls.
Release ==
    /\ opened /\ pc = "idle" /\ opens < MaxOpens
    /\ Dropped("release", GetAll(Self, files))
    /\ UNCHANGED <<files, nops>>

\* Store::open on the directory as it is.
Open ==
    /\ ~opened /\ opens < MaxOpens
    /\ LET o == open(files) IN
       /\ files' = o.files
       /\ opened' = (o.res.t = "Ok")
       /\ SetSelf(o.self)
       /\ ret' = Call("open", <<>>, <<>>, o.res)
    /\ opens' = opens + 1
    /\ UNCHANGED <<pc, compactVars, nops, historyVars, conn, envVars>>

\* The process dies between two steps of compact.
CrashInCompaction ==
    /\ opened /\ pc # "idle" /\ opens < MaxOpens
    /\ Dropped("crash_compaction", compact_get)
    /\ UNCHANGED <<files, nops>>

\* The process dies inside Writer::write of a set or remove, after n bytes
\* of the record (at least one, not all) have reached the file.
AppendCommands == {SetCmd(k, v) : k \in Keys, v \in Values}
                      \cup {RemoveCmd(k) : k \in DOMAIN index}

CrashInAppend ==
    /\ CanCall /\ opens < MaxOpens
    /\ \E command \in AppendCommands : \E n \in ShortWrites(command) \ {0} :
          files' = [files EXCEPT ![log_index] =
                       WriterWrite(files[log_index], writer, command,
                                   Fault("write", n)).file]
    /\ Dropped("crash_append", GetAll(Self, files))
    /\ nops' = nops + 1

\* ------------------------------------------------------------------------
\* The Store used directly, with no I/O failure.
\* ------------------------------------------------------------------------

Get == \E k \in Keys : CallGet(k, NoFault) /\ UNCHANGED <<conn, envVars>>

Set == \E k \in Keys, v \in Values : CallSet(k, v, NoFault) /\ UNCHANGED <<conn, envVars>>

Remove == \E k \in Keys : CallRemove(k, NoFault) /\ UNCHANGED <<conn, envVars>>

CompactC == CompactOpenC(NoFault)

CompactN == CompactOpenN(NoFault)

CompactLoop == \E k \in Keys : CompactRewrite(k, NoFault)

CompactUnlink == \E li \in old_log_indices : CompactDelete(li, NoFault)

Next ==
    \/ Get
    \/ Set
    \/ Remove
    \/ CompactC
    \/ CompactN
    \/ CompactLoop
    \/ CompactCollect
    \/ CompactUnlink
    \/ CompactFinish
    \/ Release
    \/ Open

Spec == Init /\ [][Next]_vars

\* The same, with process crashes.
NextCrash ==
    \/ Get
    \/ Set
    \/ Remove
    \/ CompactC
    \/ CompactN
    \/ CompactLoop
    \/ CompactCollect
    \/ CompactUnlink
    \/ CompactFinish
    \/ Release
    \/ Open
    \/ CrashInCompaction
    \/ CrashInAppend

SpecCrash == Init /\ [][NextCrash]_vars

\* ------------------------------------------------------------------------
\* Wire protocol and server (src/protocol.rs, src/server.rs).
\* ------------------------------------------------------------------------

Request(type, key, value) == [type |-> type, key |-> key, value |-> value]

\* The requests a client can send; "Malformed" stands for bytes that do not
\* decode as a Request.
Requests ==
    {Request("Get", k, <<>>) : k \in Keys}
        \cup {Request("Set", k, v) : k \in Keys, v \in Values}
        \cup {Request("Remove", k, <<>>) : k \in Keys}
        \cup {Request("Malformed", <<>>, <<>>)}

Response(type, value, kind) == [type |-> type, value |-> value, kind |-> kind]

ResponseOk == Response("Ok", <<>>, "")

ResponseNotFound == Response("NotFound", <<>>, "")

ResponseFound(value) == Response("Found", value, "")

ResponseErr(kind) == Response("Err", <<>>, kind)

\* impl From<std::io::Error> for Response.
response_from_io == ResponseErr("EngineError")

\* A variant of response_from_decode with the kind of an engine failure.
response_from_decode_engine == ResponseErr("EngineError")

\* impl From<rmp_serde::decode::Error> for Response.
response_from_decode == ResponseErr("InvalidRequest")

\* A variant of response_try_from without the arm for KeyNotFound.
response_try_from_no_key_arm(error) ==
    IF error = "Io" THEN [ok |-> TRUE, response |-> response_from_io]
    ELSE IF error = "Decode" THEN [ok |-> TRUE, response |-> response_from_decode]
    ELSE [ok |-> FALSE, response |-> ResponseOk]

\* impl TryFrom<Error> for Response; error is the tag of the Error.
response_try_from(error) ==
    IF error = "Io" THEN [ok |-> TRUE, response |-> response_from_io]
    ELSE IF error = "Decode" THEN [ok |-> TRUE, response |-> response_from_decode]
    ELSE IF error = "KeyNotFound" THEN [ok |-> TRUE, response |-> ResponseNotFound]
    ELSE [ok |-> FALSE, response |-> ResponseOk]

\* A variant of handle_request that answers a get of an absent key with an
\* empty value.
handle_request_found_empty(request, engine_res) ==
    IF request.type = "Get"
    THEN IF engine_res.t \in {"Some", "None"}
         THEN [ok |-> TRUE, response |-> ResponseFound(engine_res.v), error |-> ""]
         ELSE [ok |-> FALSE, response |-> ResponseOk, error |-> engine_res.t]
    ELSE IF engine_res.t = "Ok"
         THEN [ok |-> TRUE, response |-> ResponseOk, error |-> ""]
         ELSE [ok |-> FALSE, response |-> ResponseOk, error |-> engine_res.t]

\* Server::handle_request, given what the engine call returned.
handle_request(request, engine_res) ==
    IF request.type = "Get"
    THEN IF engine_res.t = "Some"
         THEN [ok |-> TRUE, response |-> ResponseFound(engine_res.v), error |-> ""]
         ELSE IF engine_res.t = "None"
         THEN [ok |-> TRUE, response |-> ResponseNotFound, error |-> ""]
         ELSE [ok |-> FALSE, response |-> ResponseOk, error |-> engine_res.t]
    ELSE IF engine_res.t = "Ok"
         THEN [ok |-> TRUE, response |-> ResponseOk, error |-> ""]
         ELSE [ok |-> FALSE, response |-> ResponseOk, error |-> engine_res.t]

\* Server::handle_stream after the engine call: the responses written to
\* the stream before it is dropped.
handle_stream_written(request, engine_res) ==
    LET r == handle_request(request, engine_res) IN
    IF r.ok THEN <<r.response>>
    ELSE LET t == response_try_from(r.error) IN
         IF t.ok THEN <<t.response>> ELSE <<>>

\* The I/O failures a call can meet.
ReadFaults == {NoFault, Fault("seek", 0), Fault("read", 0)}

WriteFaults(command) ==
    {NoFault} \cup {Fault("write", n) : n \in ShortWrites(command)}

\* The failures of opening a log: of creating the file (0), of the rest of
\* open_writer (1), of open_reader (2).
OpenFaults == {NoFault, Fault("open", 0), Fault("open", 1), Fault("open", 2)}

UnlinkFaults == {NoFault, Fault("unlink", 0)}

\* Writing to the client's socket can fail.
SocketFaults == {NoFault, Fault("write", 0)}

\* Server::handle_stream after the engine call: what it returns, "Ok" or
\* "Err"; fault is the failure write_mp meets on the socket.
handle_stream_result(request, engine_res, fault) ==
    LET r == handle_request(request, engine_res) IN
    IF ~r.ok /\ ~response_try_from(r.error).ok THEN "Err"
    ELSE IF fault = NoFault THEN "Ok" ELSE "Err"

\* A variant of run_after in which the server goes on reading requests
\* from the stream it has answered.
run_after_keeps_stream(result) == "reading"

\* Server::run, lines 34-43: whatever handle_stream returned, the error is
\* logged at most; the stream is dropped and the loop goes back to accept.
run_after(result) == "closed"

\* A variant of InService that takes no connection to be in service.
InService_never(c) == FALSE

\* A variant of InService that leaves out the stream whose request has not
\* arrived yet.
InService_with_request(c) == c.state \in {"accepted", "dispatched"}

\* Server::run, lines 33-37: handle_stream is called on the accepted stream
\* and the next accept waits for it to return. The stream is "reading"
\* while read_mp (line 50) waits for the peer's bytes, "accepted" once the
\* request is in, "dispatched" once the engine has been called.
InService(c) == c.state \in {"reading", "accepted", "dispatched"}

\* Whether a turn of the loop met an error: accept or handle_stream
\* failed, the request did not decode, or the response was an Err or none.
TurnFailed(c) ==
    \/ c.result # "Ok"
    \/ /\ c.state = "closed"
       /\ \/ c.request.type = "Malformed"
          \/ c.responses = <<>>
          \/ \E i \in DOMAIN c.responses : c.responses[i].type = "Err"

Accepted(request) ==
    conn' = [id |-> conn.id + 1, state |-> "accepted", request |-> request,
             responses |-> <<>>, calls |-> 0, result |-> "Ok",
             failed |-> conn.failed \/ TurnFailed(conn)]

CanAccept ==
    /\ opened /\ pc = "idle" /\ conn.id < MaxConns /\ nops < MaxOps
    /\ conn.state # "down" /\ ~InService(conn)

\* Server::run: accept blocks until a client connects; request is what the
\* client sends.
Accept ==
    /\ CanAccept
    /\ \E request \in Requests : Accepted(request)
    /\ UNCHANGED <<files, storeVars, pc, compactVars, ret, nops, opens, historyVars,
                   envVars>>

\* handle_stream, lines 50-58: the request does not decode.
ReadInvalidTo(fault) ==
    /\ conn.state = "accepted" /\ conn.request.type = "Malformed"
    /\ LET result == IF fault = NoFault THEN "Ok" ELSE "Err" IN
       conn' = [conn EXCEPT !.state = run_after(result),
                            !.responses = IF fault = NoFault
                                          THEN <<response_from_decode>> ELSE <<>>,
                            !.result = result]
    /\ UNCHANGED <<files, storeVars, pc, compactVars, ret, nops, opens, historyVars,
                   envVars>>

ReadInvalid == ReadInvalidTo(NoFault)

Dispatched ==
    /\ conn' = [conn EXCEPT !.state = "dispatched", !.calls = conn.calls + 1]
    /\ UNCHANGED envVars

\* handle_request: the engine call of each kind of request.
ServeGet ==
    /\ conn.state = "accepted" /\ conn.request.type = "Get"
    /\ \E fault \in ReadFaults :
          /\ fault = NoFault \/ conn.request.key \in DOMAIN index
          /\ CallGet(conn.request.key, fault)
    /\ Dispatched

ServeSet ==
    /\ conn.state = "accepted" /\ conn.request.type = "Set"
    /\ \E fault \in WriteFaults(SetCmd(conn.request.key, conn.request.value)) :
          CallSet(conn.request.key, conn.request.value, fault)
    /\ Dispatched

ServeRemove ==
    /\ conn.state = "accepted" /\ conn.request.type = "Remove"
    /\ \E fault \in WriteFaults(RemoveCmd(conn.request.key)) :
          /\ fault = NoFault \/ conn.request.key \in DOMAIN index
          /\ CallRemove(conn.request.key, fault)
    /\ Dispatched

\* handle_stream, lines 60-67: the engine has returned; the response, if
\* there is one, is written and the stream is dropped.
\* A panic inside the engine call unwinds out of run.
RespondTo(fault) ==
    /\ conn.state = "dispatched" /\ pc = "idle"
    /\ LET result == handle_stream_result(conn.request, ret.res, fault) IN
       conn' = [conn EXCEPT !.state = IF ret.res.t = "Panic" THEN "down"
                                      ELSE run_after(result),
                            !.responses = IF fault = NoFault
                                          THEN handle_stream_written(conn.request,
                                                                     ret.res)
                                          ELSE <<>>,
                            !.result = result]
    /\ UNCHANGED <<files, storeVars, pc, compactVars, ret, nops, opens, historyVars,
                   envVars>>

Respond == RespondTo(NoFault)

\* compact inside the server's set, with the I/O failures it can meet.
ServeCompactC == \E fault \in OpenFaults : CompactOpenC(fault)

ServeCompactN == \E fault \in OpenFaults : CompactOpenN(fault)

RewriteFaults(key) ==
    ReadFaults \cup
        LET value == read_value(files[index[key].log_index], index[key].offset, NoFault)
        IN WriteFaults(SetCmd(key, value.v))

ServeCompactLoop == \E k \in todo : \E fault \in RewriteFaults(k) : CompactRewrite(k, fault)

ServeCompactUnlink ==
    \E li \in old_log_indices : \E fault \in UnlinkFaults : CompactDelete(li, fault)

NextServer ==
    \/ Accept
    \/ ReadInvalid
    \/ ServeGet
    \/ ServeSet
    \/ ServeRemove
    \/ ServeCompactC
    \/ ServeCompactN
    \/ ServeCompactLoop
    \/ CompactCollect
    \/ ServeCompactUnlink
    \/ CompactFinish
    \/ Respond

SpecServer == Init /\ [][NextServer]_vars

\* ------------------------------------------------------------------------
\* The server with a failing network: accept and the socket writes can fail.
\* ------------------------------------------------------------------------

\* Server::run, lines 40-42: accept returns an error, which is logged.
AcceptError ==
    /\ CanAccept
    /\ conn' = [conn EXCEPT !.state = run_after("Err"),
                            !.request = NoConn.request,
                            !.responses = <<>>,
                            !.calls = 0,
                            !.result = "AcceptErr",
                            !.failed = conn.failed \/ TurnFailed(conn)]
    /\ UNCHANGED <<files, storeVars, pc, compactVars, ret, nops, opens, historyVars,
                   envVars>>

NetReadInvalid == \E fault \in SocketFaults : ReadInvalidTo(fault)

NetRespond == \E fault \in SocketFaults : RespondTo(fault)

\* The steps the server takes by itself once a request is in.
ServerStep ==
    \/ NetReadInvalid
    \/ ServeGet
    \/ ServeSet
    \/ ServeRemove
    \/ ServeCompactC
    \/ ServeCompactN
    \/ ServeCompactLoop
    \/ CompactCollect
    \/ ServeCompactUnlink
    \/ CompactFinish
    \/ NetRespond

NextNet ==
    \/ Accept
    \/ AcceptError
    \/ ServerStep

SpecNet == Init /\ [][NextNet]_vars

\* ------------------------------------------------------------------------
\* The client (src/client.rs, src/bin/kvs-client.rs).
\* ------------------------------------------------------------------------

\* Every response a peer can write.
Responses ==
    {ResponseOk, ResponseNotFound}
        \cup {ResponseFound(v) : v \in Values}
        \cup {ResponseErr(kind) : kind \in {"InvalidRequest", "EngineError"}}

\* Client::get, lines 26-30: the match on the response.
client_get(response) ==
    IF response.type = "Found" THEN Some(response.value)
    ELSE IF response.type = "NotFound" THEN Res("None")
    ELSE Res("ProtocolError")

\* A variant of client_set without the arm for NotFound.
client_set_no_not_found(response) ==
    IF response.type = "Ok" THEN Res("Ok") ELSE Res("ProtocolError")

\* Client::set, lines 39-43.
client_set(response) ==
    IF response.type = "Ok" THEN Res("Ok")
    ELSE IF response.type = "NotFound" THEN Res("KeyNotFound")
    ELSE Res("ProtocolError")

\* Client::remove, lines 52-56.
client_remove(response) ==
    IF response.type = "Ok" THEN Res("Ok")
    ELSE IF response.type = "NotFound" THEN Res("KeyNotFound")
    ELSE Res("ProtocolError")

\* What a call of the Client returns, given what the server wrote before it
\* dropped the stream; with nothing written read_mp fails.
client_result(op, responses) ==
    IF responses = <<>> THEN Res("Decode")
    ELSE IF op = "get" THEN client_get(responses[1])
    ELSE IF op = "set" THEN client_set(responses[1])
    ELSE client_remove(responses[1])

\* kvs-client, run and main: the exit code and what is printed (out: the
\* value, or a message) for each subcommand.
cli_run(op, responses) ==
    IF responses = <<>> THEN [exit |-> 1, out |-> Res("Error")]
    ELSE LET response == responses[1] IN
         IF op = "get"
         THEN IF response.type = "Found"
              THEN [exit |-> 0, out |-> Some(response.value)]
              ELSE IF response.type = "NotFound"
              THEN [exit |-> 0, out |-> Res("Key not found")]
              ELSE [exit |-> 2, out |-> Res("Protocol error")]
         ELSE IF response.type = "Ok" THEN [exit |-> 0, out |-> Res("")]
              ELSE IF response.type = "NotFound"
              THEN [exit |-> 1, out |-> Res("Key not found")]
              ELSE [exit |-> 2, out |-> Res("Protocol error")]

\* The request a call writes to its stream.
ClientRequest ==
    Request(IF client.op = "get" THEN "Get"
            ELSE IF client.op = "set" THEN "Set" ELSE "Remove",
            client.key, client.value)

ClientCalls ==
    {[op |-> "get", key |-> k, value |-> <<>>] : k \in Keys}
        \cup {[op |-> "set", key |-> k, value |-> v] : k \in Keys, v \in Values}
        \cup {[op |-> "remove", key |-> k, value |-> <<>>] : k \in Keys}

\* The client connects and writes its request; then it waits in read_mp.
ClientCall ==
    /\ client.state \in {"idle", "returned"}
    /\ \E call \in ClientCalls :
          client' = [NoClient EXCEPT !.state = "calling", !.op = call.op,
                                     !.key = call.key, !.value = call.value]
    /\ UNCHANGED <<files, storeVars, pc, compactVars, ret, nops, opens, historyVars,
                   conn, other, engine_file, startup>>

\* Server::run accepts the client's connection and reads its request.
AcceptClient ==
    /\ CanAccept
    /\ client.state = "calling"
    /\ Accepted(ClientRequest)
    /\ client' = [client EXCEPT !.state = "waiting"]
    /\ UNCHANGED <<files, storeVars, pc, compactVars, ret, nops, opens, historyVars,
                   other, engine_file, startup>>

\* The server has dropped the stream: read_mp returns to the client.
ClientReturn ==
    /\ client.state = "waiting" /\ conn.state = "closed"
    /\ LET cli == cli_run(client.op, conn.responses) IN
       client' = [client EXCEPT !.state = "returned",
                                !.result = client_result(client.op, conn.responses),
                                !.exit = cli.exit,
                                !.out = cli.out]
    /\ UNCHANGED <<files, storeVars, pc, compactVars, ret, nops, opens, historyVars,
                   conn, other, engine_file, startup>>

\* A peer that answers the client's request with any response, or with
\* none.
PeerRespond ==
    /\ client.state = "calling"
    /\ \E responses \in {<<>>} \cup {<<r>> : r \in Responses} :
          conn' = [NoConn EXCEPT !.state = "closed", !.request = ClientRequest,
                                 !.responses = responses]
    /\ client' = [client EXCEPT !.state = "waiting"]
    /\ UNCHANGED <<files, storeVars, pc, compactVars, ret, nops, opens, historyVars,
                   other, engine_file, startup>>

NextClient ==
    \/ ClientCall
    \/ PeerRespond
    \/ ClientReturn

SpecClient == Init /\ [][NextClient]_vars

\* handle_request for each kind of request, with no I/O failure.
RemoteGet ==
    /\ conn.state = "accepted" /\ conn.request.type = "Get"
    /\ CallGet(conn.request.key, NoFault)
    /\ Dispatched

RemoteSet ==
    /\ conn.state = "accepted" /\ conn.request.type = "Set"
    /\ CallSet(conn.request.key, conn.request.value, NoFault)
    /\ Dispatched

RemoteRemove ==
    /\ conn.state = "accepted" /\ conn.request.type = "Remove"
    /\ CallRemove(conn.request.key, NoFault)
    /\ Dispatched

\* Clients and the server on a fresh Store, with no I/O failure.
NextRemote ==
    \/ ClientCall
    \/ AcceptClient
    \/ RemoteGet
    \/ RemoteSet
    \/ RemoteRemove
    \/ CompactC
    \/ CompactN
    \/ CompactLoop
    \/ CompactCollect
    \/ CompactUnlink
    \/ CompactFinish
    \/ Respond
    \/ ClientReturn

SpecRemote == Init /\ [][NextRemote]_vars

\* ------------------------------------------------------------------------
\* A second Store::open on the directory while the first handle is held.
\* ------------------------------------------------------------------------

\* Store::open, called between two calls on the first handle: nothing in
\* it looks for another handle.
OpenOther ==
    /\ opened /\ pc = "idle" /\ ~other.opened
    /\ LET o == open(files) IN
       /\ files' = o.files
       /\ other' = [opened |-> o.res.t = "Ok", self |-> o.self]
    /\ UNCHANGED <<storeVars, pc, compactVars, ret, nops, opens, historyVars, conn,
                   client, engine_file, startup>>

\* Store::set on the second handle, for the sets that start no compaction
\* and while its active segment is still in the directory. kv keeps
\* following the calls on the first handle only.
OtherSet ==
    /\ other.opened /\ pc = "idle" /\ nops < MaxOps
    /\ other.self.log_index \in DOMAIN files
    /\ \E k \in Keys, v \in Values :
          LET r == set(other.self, files, k, v, NoFault) IN
          /\ ~r.compact
          /\ files' = r.files
          /\ other' = [other EXCEPT !.self = r.self]
    /\ nops' = nops + 1
    /\ UNCHANGED <<storeVars, pc, compactVars, ret, opens, historyVars, conn,
                   client, engine_file, startup>>

NextTwo ==
    \/ Get
    \/ Set
    \/ Remove
    \/ CompactC
    \/ CompactN
    \/ CompactLoop
    \/ CompactCollect
    \/ CompactUnlink
    \/ CompactFinish
    \/ OpenOther
    \/ OtherSet

SpecTwo == Init /\ [][NextTwo]_vars

\* ------------------------------------------------------------------------
\* Starting and stopping kvs-server (src/bin/kvs-server.rs).
\* ------------------------------------------------------------------------

VALID_ENGINES == {"kvs", "sled"}

\* The failures check_engine can meet: read_to_string fails with an error
\* other than NotFound; fs::write fails before (0) or after (1) it has
\* created the file.
StartFaults == {NoFault, Fault("read", 0), Fault("write", 0), Fault("write", 1)}

\* A variant of check_engine that accepts a marker whatever it names.
check_engine_any_contents(contents, engine, fault) ==
    IF fault.kind = "read" THEN [res |-> "Io", contents |-> contents]
    ELSE IF contents # "none" THEN [res |-> "Ok", contents |-> contents]
    ELSE IF fault.kind = "write"
    THEN [res |-> "Io", contents |-> IF fault.n = 0 THEN "none" ELSE ""]
    ELSE [res |-> "Ok", contents |-> engine]

\* check_engine: contents is what the file "engine" holds, "none" when it
\* does not exist; the result and the file afterwards.
check_engine(contents, engine, fault) ==
    IF fault.kind = "read" THEN [res |-> "Io", contents |-> contents]
    ELSE IF contents = engine THEN [res |-> "Ok", contents |-> contents]
    ELSE IF contents # "none" THEN [res |-> "WrongEngine", contents |-> contents]
    ELSE IF fault.kind = "write"
    THEN [res |-> "Io", contents |-> IF fault.n = 0 THEN "none" ELSE ""]
    ELSE [res |-> "Ok", contents |-> engine]

\* A directory with nothing in it and no server process.
InitStart ==
    /\ files = EmptyMap
    /\ opened = FALSE
    /\ log_index = NoStore.log_index
    /\ writer = NoStore.writer
    /\ readers = NoStore.readers
    /\ index = NoStore.index
    /\ uncompacted = NoStore.uncompacted
    /\ pc = "idle"
    /\ compaction_index = 0
    /\ compaction_writer = 0
    /\ todo = {}
    /\ old_log_indices = {}
    /\ ret = Call("none", <<>>, <<>>, Res("Ok"))
    /\ nops = 0
    /\ opens = 0
    /\ kv = NoGets
    /\ released = "never"
    /\ released_get = NoGets
    /\ compact_get = NoGets
    /\ ever_set = {}
    /\ conn = NoConn
    /\ client = NoClient
    /\ other = NoOther
    /\ engine_file = "none"
    /\ startup = NoStartup

\* run, lines 37-58: check_engine, then the store is opened and the server
\* started on it. The files of the sled engine are not *.log files and are
\* left out.
Start ==
    /\ ~startup.running /\ opens < MaxStarts
    /\ \E engine \in VALID_ENGINES, fault \in StartFaults :
          LET check == check_engine(engine_file, engine, fault)
              o == open(files)
          IN
          /\ fault.kind = "write" => engine_file = "none"
          /\ engine_file' = check.contents
          /\ IF check.res = "Ok" /\ engine = "kvs"
             THEN /\ files' = o.files
                  /\ opened' = (o.res.t = "Ok")
                  /\ SetSelf(o.self)
                  /\ ret' = Call("open", <<>>, <<>>, o.res)
                  /\ startup' = [engine |-> engine, res |-> o.res.t,
                                 running |-> o.res.t = "Ok"]
             ELSE /\ startup' = [engine |-> engine, res |-> check.res,
                                 running |-> check.res = "Ok"]
                  /\ UNCHANGED <<files, storeVars, ret>>
    /\ opens' = opens + 1
    /\ conn' = NoConn
    /\ client' = NoClient
    /\ UNCHANGED <<pc, compactVars, nops, historyVars, other>>

\* The server process is stopped between two connections.
Stop ==
    /\ startup.running /\ pc = "idle" /\ ~InService(conn)
    /\ client.state \in {"idle", "returned"}
    /\ startup' = [startup EXCEPT !.running = FALSE]
    /\ opened' = FALSE
    /\ SetSelf(NoStore)
    /\ released' = IF opened THEN "release" ELSE released
    /\ released_get' = IF opened THEN GetAll(Self, files) ELSE released_get
    /\ UNCHANGED <<files, pc, compactVars, ret, nops, opens, kv, compact_get,
                   ever_set, conn, client, other, engine_file>>

\* A client calls while the server runs.
StartedClientCall == startup.running /\ ClientCall

NextStart ==
    \/ Start
    \/ Stop
    \/ StartedClientCall
    \/ AcceptClient
    \/ RemoteGet
    \/ RemoteSet
    \/ RemoteRemove
    \/ CompactC
    \/ CompactN
    \/ CompactLoop
    \/ CompactCollect
    \/ CompactUnlink
    \/ CompactFinish
    \/ Respond
    \/ ClientReturn

SpecStart == InitStart /\ [][NextStart]_vars

\* ------------------------------------------------------------------------
\* The Store with a value as large as the compaction threshold.
\* ------------------------------------------------------------------------

\* A value of COMPACTION_THRESHOLD bytes; serialized it is longer still.
LargeValue == [i \in 1..COMPACTION_THRESHOLD |-> 76]

SetLarge == \E k \in Keys : CallSet(k, LargeValue, NoFault) /\ UNCHANGED <<conn, envVars>>

NextLarge ==
    \/ Get
    \/ Set
    \/ SetLarge
    \/ Remove
    \/ CompactC
    \/ CompactN
    \/ CompactLoop
    \/ CompactCollect
    \/ CompactUnlink
    \/ CompactFinish

SpecLarge == Init /\ [][NextLarge]_vars

\* ------------------------------------------------------------------------
\* A peer that connects and sends nothing for a while (src/server.rs).
\* ------------------------------------------------------------------------

\* Server::run, line 32: accept returns as soon as a peer has connected;
\* handle_stream then waits in read_mp (line 50) for the peer's request. The
\* stream has no read timeout.
AcceptSilent ==
    /\ CanAccept
    /\ client.state # "waiting"
    /\ conn' = [id |-> conn.id + 1, state |-> "reading",
                request |-> NoConn.request, responses |-> <<>>, calls |-> 0,
                result |-> "Ok", failed |-> conn.failed \/ TurnFailed(conn)]
    /\ UNCHANGED <<files, storeVars, pc, compactVars, ret, nops, opens, historyVars,
                   envVars>>

\* The peer writes a request at last: read_mp returns it.
PeerSends ==
    /\ conn.state = "reading"
    /\ \E request \in Requests \ {Request("Malformed", <<>>, <<>>)} :
          conn' = [conn EXCEPT !.state = "accepted", !.request = request]
    /\ UNCHANGED <<files, storeVars, pc, compactVars, ret, nops, opens, historyVars,
                   envVars>>

\* The peer closes its end, or what it has written does not decode: read_mp
\* returns an error (lines 52-57).
PeerCloses ==
    /\ conn.state = "reading"
    /\ conn' = [conn EXCEPT !.state = "accepted",
                            !.request = Request("Malformed", <<>>, <<>>)]
    /\ UNCHANGED <<files, storeVars, pc, compactVars, ret, nops, opens, historyVars,
                   envVars>>

\* What the server does by itself on the stream it has accepted.
StallServes ==
    \/ NetReadInvalid
    \/ RemoteGet
    \/ RemoteSet
    \/ RemoteRemove
    \/ CompactC
    \/ CompactN
    \/ CompactLoop
    \/ CompactCollect
    \/ CompactUnlink
    \/ CompactFinish
    \/ Respond

\* A server with silent peers and a client whose request waits to be
\* accepted.
NextStall ==
    \/ ClientCall
    \/ AcceptClient
    \/ AcceptSilent
    \/ PeerSends
    \/ PeerCloses
    \/ StallServes
    \/ ClientReturn

SpecStall == Init /\ [][NextStall]_vars

\* ------------------------------------------------------------------------
\* A Client handle that is used for more than one call (src/client.rs).
\* ------------------------------------------------------------------------

\* Client::connect, lines 15-18, and the accept it is answered with
\* (server.rs line 32): the handle holds the stream, and handle_stream waits
\* in read_mp for the first request.
HandleConnect ==
    /\ CanAccept
    /\ client.state \in {"idle", "returned", "returned_again"}
    /\ client' = [NoClient EXCEPT !.state = "connected"]
    /\ conn' = [id |-> conn.id + 1, state |-> "reading",
                request |-> NoConn.request, responses |-> <<>>, calls |-> 0,
                result |-> "Ok", failed |-> conn.failed \/ TurnFailed(conn)]
    /\ UNCHANGED <<files, storeVars, pc, compactVars, ret, nops, opens, historyVars,
                   other, engine_file, startup>>

\* The first get, set or remove on the handle: write_mp sends the request,
\* which the server's read_mp returns; the call then waits in read_mp.
HandleCall ==
    /\ client.state = "connected" /\ conn.state = "reading"
    /\ \E call \in ClientCalls :
          /\ client' = [client EXCEPT !.state = "calling", !.op = call.op,
                                      !.key = call.key, !.value = call.value]
          /\ conn' = [conn EXCEPT !.state = "accepted",
                                  !.request = Request(IF call.op = "get" THEN "Get"
                                                      ELSE IF call.op = "set" THEN "Set"
                                                      ELSE "Remove",
                                                      call.key, call.value)]
    /\ UNCHANGED <<files, storeVars, pc, compactVars, ret, nops, opens, historyVars,
                   other, engine_file, startup>>

\* read_mp of the first call returns: with the response the server wrote,
\* or with an error when the server dropped the stream without one.
HandleReturn ==
    /\ client.state = "calling"
    /\ conn.responses # <<>> \/ conn.state \in {"closed", "down"}
    /\ client' = [client EXCEPT !.state = "returned",
                                !.result = client_result(client.op, conn.responses)]
    /\ UNCHANGED <<files, storeVars, pc, compactVars, ret, nops, opens, historyVars,
                   conn, other, engine_file, startup>>

\* A second call on the same handle: write_mp on the held stream fails
\* (fault) or hands the bytes to the socket; they reach the server's read_mp
\* only if handle_stream is still reading this stream.
HandleCallAgain ==
    /\ client.state = "returned"
    /\ \E call \in ClientCalls, fault \in SocketFaults :
          /\ client' = [client EXCEPT !.state = IF fault = NoFault
                                                THEN "calling_again"
                                                ELSE "returned_again",
                                      !.op = call.op, !.key = call.key,
                                      !.value = call.value,
                                      !.result = IF fault = NoFault
                                                 THEN Res("Pending")
                                                 ELSE Res("Encode")]
          /\ conn' = IF fault = NoFault /\ conn.state = "reading"
                     THEN [conn EXCEPT !.state = "accepted",
                                       !.request =
                                           Request(IF call.op = "get" THEN "Get"
                                                   ELSE IF call.op = "set" THEN "Set"
                                                   ELSE "Remove",
                                                   call.key, call.value)]
                     ELSE conn
    /\ UNCHANGED <<files, storeVars, pc, compactVars, ret, nops, opens, historyVars,
                   other, engine_file, startup>>

\* read_mp of the second call returns what the stream holds after the
\* response the first call has read.
HandleReturnAgain ==
    /\ client.state = "calling_again"
    /\ Len(conn.responses) > 1 \/ conn.state \in {"closed", "down"}
    /\ client' = [client EXCEPT !.state = "returned_again",
                                !.result = client_result(client.op,
                                               IF conn.responses = <<>> THEN <<>>
                                               ELSE Tail(conn.responses))]
    /\ UNCHANGED <<files, storeVars, pc, compactVars, ret, nops, opens, historyVars,
                   conn, other, engine_file, startup>>

\* handle_stream once the request is in; the write of the response can
\* fail.
HandleServes ==
    \/ RemoteGet
    \/ RemoteSet
    \/ RemoteRemove
    \/ CompactC
    \/ CompactN
    \/ CompactLoop
    \/ CompactCollect
    \/ CompactUnlink
    \/ CompactFinish
    \/ NetRespond

\* Client handles against the server, one after the other.
NextHandle ==
    \/ HandleConnect
    \/ HandleCall
    \/ HandleServes
    \/ HandleReturn
    \/ HandleCallAgain
    \/ HandleReturnAgain

SpecHandle == Init /\ [][NextHandle]_vars

\* ------------------------------------------------------------------------
\* Properties.
\* ------------------------------------------------------------------------

\* The handle is between two calls.
AtRest == opened /\ pc = "idle"

\* The records of every segment file of the directory, in the order
\* (segment index ascending, offset ascending).
RECURSIVE ScanFrom(_, _, _)
ScanFrom(fls, order, j) ==
    IF j > Len(order) THEN <<>>
    ELSE load(fls[order[j]]) \o ScanFrom(fls, order, j + 1)

Scan(fls) == ScanFrom(fls, SortAscending(DOMAIN fls), 1)

RecordsOf(fls, k) == SelectSeq(Scan(fls), LAMBDA e : e.ok /\ e.cmd.key = k)

LastRecordIs(fls, k, type) ==
    LET recs == RecordsOf(fls, k) IN
    recs # <<>> /\ recs[Len(recs)].cmd.type = type

WellFormed == conn.request.type # "Malformed"

C2_ReopenKeepsGets ==
    (ret.op = "open" /\ released = "release") =>
        /\ ret.res.t = "Ok"
        /\ \A k \in Keys : get(Self, files, k, NoFault) = released_get[k]

\* C2 witness: a reopened Store with a live key, an overwritten or removed
\* key in its log and segments left by a compaction.
C2_Witness ==
    /\ ret.op = "open" /\ released = "release" /\ opened
    /\ log_index >= 2
    /\ \E k \in Keys : released_get[k].t = "Some"
    /\ \E k \in Keys : LastRecordIs(files, k, "Remove")

\* C3: a Store opened after a crash between two steps of compact gives, for
\* every key, the get result the Store gave when that compact began.
C3_CrashInCompactionKeepsGets ==
    (ret.op = "open" /\ released = "crash_compaction") =>
        /\ ret.res.t = "Ok"
        /\ \A k \in Keys : get(Self, files, k, NoFault) = released_get[k]

\* C4: Store::open succeeds on a directory whose active segment ends with a
\* record cut short by a crash, and the index it builds gives the get
\* results of the complete records.
C4_TruncatedTailTolerated ==
    (ret.op = "open" /\ released = "crash_append") =>
        /\ ret.res.t = "Ok"
        /\ opened
        /\ \A k \in Keys : get(Self, files, k, NoFault) = released_get[k]

\* C5 (I1): between calls, a key is in the index exactly when its last
\* record in the scan of the directory's segment files is a Set.
C5_IndexIffLastRecordIsSet ==
    AtRest => \A k \in Keys : (k \in DOMAIN index) <=> LastRecordIs(files, k, "Set")

\* C5 witness: after a compaction, one key is live and another has a Remove
\* as its last record.
C5_Witness ==
    /\ AtRest /\ log_index >= 2
    /\ \E k \in Keys : k \in DOMAIN index
    /\ \E k \in Keys : LastRecordIs(files, k, "Remove")

\* C6 (I2): between calls, decoding one string at the value offset of every
\* index entry, in the segment the entry names, yields the value of the most
\* recent set of that key.
C6_EntryDecodesToValue ==
    AtRest =>
        \A k \in DOMAIN index :
            /\ index[k].log_index \in DOMAIN files
            /\ LET d == DecodeStr(files[index[k].log_index], index[k].offset)
               IN d.st = "ok" /\ kv[k] = Some(d.val)

\* C6 witness: a reopened Store holds an entry that points into a segment
\* written by compact and an entry that points into the active segment.
C6_Witness ==
    /\ AtRest /\ opens >= 1 /\ log_index >= 2
    /\ \E k \in DOMAIN index : index[k].log_index = log_index - 1
    /\ \E k \in DOMAIN index : index[k].log_index = log_index /\ index[k].offset > 3

\* C7: a remove of a key that is not in the index returns KeyNotFound and
\* leaves every segment file, the index and the uncompacted counter as
\* they were.
C7_RemoveAbsentChangesNothing ==
    [][(AtRest /\ nops' = nops + 1 /\ ret'.op = "remove"
            /\ ret'.key \notin DOMAIN index)
        => (/\ ret'.res = Res("KeyNotFound")
            /\ files' = files
            /\ index' = index
            /\ uncompacted' = uncompacted
            /\ writer' = writer)]_vars

\* C7 witness: remove returned KeyNotFound on a Store that holds another key.
C7_Witness ==
    /\ AtRest /\ ret.op = "remove" /\ ret.res.t = "KeyNotFound"
    /\ index # EmptyMap
    /\ LastRecordIs(files, ret.key, "Remove")

\* C8: when the connection of a well-formed request is closed, exactly one
\* response has been written, and it is Err with kind EngineError when the
\* engine failed with an Io, Decode or Encode error.
C8_OneResponsePerRequest ==
    (conn.state = "closed" /\ WellFormed) =>
        /\ Len(conn.responses) = 1
        /\ ret.res.t \in {"Io", "Decode", "Encode"}
              => conn.responses = <<ResponseErr("EngineError")>>

\* C9: an Io or a Decode error of the engine is answered with Err of kind
\* EngineError, and kind InvalidRequest is only sent for a request that
\* did not decode.
C9_EngineErrorKind ==
    /\ (conn.state = "closed" /\ WellFormed /\ ret.res.t \in {"Io", "Decode"})
          => conn.responses = <<ResponseErr("EngineError")>>
    /\ (conn.state = "closed" /\ ResponseErr("InvalidRequest") \in
                                    {conn.responses[i] : i \in DOMAIN conn.responses})
          => ~WellFormed

C11_MalformedRequestRejected ==
    [][(conn.state = "accepted" /\ conn.request.type = "Malformed") =>
          /\ conn'.state = "closed"
          /\ conn'.responses = <<ResponseErr("InvalidRequest")>>
          /\ conn'.result = "Ok"
          /\ conn'.calls = 0
          /\ UNCHANGED <<files, storeVars, pc, ret, nops>>]_vars

C11_Witness ==
    /\ conn.state = "closed" /\ conn.request.type = "Malformed"
    /\ conn.responses = <<ResponseErr("InvalidRequest")>>
    /\ conn.calls = 0
    /\ DOMAIN index # {}

\* C12: the server has one connection in service at a time. A connection is
\* accepted only when handle_stream has returned for the one before it and
\* no engine call is running; every engine call, and every change to the
\* store or its files, is made for the connection accepted last, which has
\* had no call yet. Engine calls therefore follow the accept order.
C12_OneConnectionInService ==
    [][/\ (conn'.id # conn.id) =>
             /\ conn.state \in {"none", "closed"}
             /\ pc = "idle"
             /\ conn'.id = conn.id + 1
       /\ (nops' # nops) =>
             /\ conn.state = "accepted" /\ conn.calls = 0
             /\ conn'.state = "dispatched" /\ conn'.calls = 1
             /\ conn'.id = conn.id
       /\ (files' # files \/ index' # index \/ pc' # pc) =>
             /\ conn'.id = conn.id
             /\ conn'.state = "dispatched"]_vars

C12_Witness ==
    /\ conn.id = 3 /\ conn.state = "dispatched" /\ pc = "compact_loop"
    /\ nops = 3

\* How far handle_stream has come with the connection in service.
Rank ==
    IF conn.state = "accepted" THEN 0
    ELSE IF conn.state # "dispatched" THEN 102
    ELSE IF pc = "compact" THEN 1
    ELSE IF pc = "compact_n" THEN 2
    ELSE IF pc = "compact_loop" THEN 50 - Cardinality(todo)
    ELSE IF pc = "compact_delete" THEN 100 - Cardinality(old_log_indices)
    ELSE 101

\* C13: no accept error and no error on a connection (a request that does
\* not decode, an engine error with no Response, a failed write of the
\* response) ends Server::run: the loop is back at accept with the engine
\* intact. A well-formed request accepted after such an error is served:
\* while it is in service the server always has a step to take, and every
\* step brings handle_stream nearer to its return, which comes after one
\* engine call.
C13_ServerKeepsServing ==
    /\ [](conn.state # "down")
    /\ []((TurnFailed(conn) /\ ~InService(conn)) =>
             (conn.state = "closed" /\ opened /\ pc = "idle"))
    /\ []((conn.failed /\ InService(conn) /\ WellFormed) => ENABLED ServerStep)
    /\ [][(conn.failed /\ InService(conn) /\ WellFormed) =>
             /\ Rank' > Rank
             /\ conn'.id = conn.id
             /\ conn'.state = "closed" => conn'.calls = 1]_vars

\* C14: Client::get returns the value for Found, none for NotFound and a
\* protocol error for Ok and Err; Client::set and Client::remove return
\* success for Ok, KeyNotFound for NotFound and a protocol error for Found
\* and Err.
C14_ClientResultMapping ==
    (client.state = "returned" /\ conn.responses # <<>>) =>
        LET response == conn.responses[1] IN
        /\ (client.op = "get" /\ response.type = "Found")
              => client.result = Some(response.value)
        /\ (client.op = "get" /\ response.type = "NotFound")
              => client.result = Res("None")
        /\ (client.op = "get" /\ response.type \in {"Ok", "Err"})
              => client.result = Res("ProtocolError")
        /\ (client.op \in {"set", "remove"} /\ response.type = "Ok")
              => client.result = Res("Ok")
        /\ (client.op \in {"set", "remove"} /\ response.type = "NotFound")
              => client.result = Res("KeyNotFound")
        /\ (client.op \in {"set", "remove"} /\ response.type \in {"Found", "Err"})
              => client.result = Res("ProtocolError")

C14_Witness ==
    /\ client.state = "returned" /\ client.op = "set"
    /\ conn.responses = <<ResponseNotFound>>
    /\ client.result = Res("KeyNotFound")

C16_SingleWriter ==
    ~(opened /\ other.opened /\ other.self.log_index \in readers)

\* C17: a start of kvs-server with engine E, when no I/O failure turns
\* check_engine into an Io error: with no marker in the directory the marker
\* becomes E and startup goes on to open the store; with a marker naming E
\* the marker stays and startup goes on; with a marker naming anything else
\* startup fails with WrongEngine, no store is opened, nothing is served
\* and the marker and the segment files are left as they were. A marker
\* that names an engine never changes, and a running server runs the
\* engine the marker names, so after a start with engine A a start with
\* another engine is refused.
C17_EngineMarkerChecked ==
    /\ [][(opens' = opens + 1 /\ startup'.res # "Io") =>
             LET engine == startup'.engine IN
             /\ engine_file = "none" =>
                   (engine_file' = engine /\ startup'.res = "Ok"
                    /\ startup'.running /\ (engine = "kvs" <=> opened'))
             /\ engine_file = engine =>
                   (engine_file' = engine /\ startup'.res = "Ok"
                    /\ startup'.running /\ (engine = "kvs" <=> opened'))
             /\ engine_file \notin {"none", engine} =>
                   (startup'.res = "WrongEngine" /\ ~startup'.running /\ ~opened'
                    /\ UNCHANGED <<engine_file, files, storeVars>>)]_vars
    /\ [][(engine_file \in VALID_ENGINES) => (engine_file' = engine_file)]_vars
    /\ [](startup.running => engine_file = startup.engine)

C17_Witness ==
    /\ engine_file = "kvs" /\ \E li \in DOMAIN files : files[li] # <<>>
    /\ startup = [engine |-> "sled", res |-> "WrongEngine", running |-> FALSE]
    /\ released = "release" /\ ~opened

\* What get returns for every key after the handle is released and the
\* directory opened again.
ReopenGets(fls) == LET o == open(fls) IN GetAll(o.self, o.files)

\* The call that starts in this step is the set that has just returned Ok,
\* made again with the same key and value.
SameSetAgain ==
    /\ AtRest /\ ret.op = "set" /\ ret.res.t = "Ok"
    /\ nops' = nops + 1
    /\ ret'.op = "set" /\ ret'.key = ret.key /\ ret'.value = ret.value

\* C18: a set(k, v) made right after a set(k, v) leaves what get returns
\* for every key, on the handle and after release and Open, as the first
\* set left it. The second set either returns at once, or goes on into
\* compact with those results, and compact returns with them unchanged.
C18_SetTwiceSameAsOnce ==
    [][/\ SameSetAgain =>
             /\ ReopenGets(files) = GetAll(Self, files)
             /\ GetAll(Self, files)' = GetAll(Self, files)
             /\ pc' = "idle" => ReopenGets(files') = GetAll(Self, files)
             /\ pc' # "idle" => compact_get' = GetAll(Self, files)
       /\ (pc = "compact_delete" /\ pc' = "idle" /\ opened') =>
             /\ GetAll(Self, files)' = compact_get
             /\ ReopenGets(files') = compact_get]_vars

C18_Witness ==
    /\ AtRest /\ nops = 2
    /\ ret = Call("set", <<107>>, <<118>>, Res("Ok"))
    /\ log_index = 2
    /\ files[1] = EncodeCommand(SetCmd(<<107>>, <<118>>))

\* A set of a value whose serialized size reaches the threshold has
\* returned Ok.
LargeSetReturned ==
    /\ AtRest /\ ret.op = "set" /\ ret.res.t = "Ok"
    /\ Len(EncodeStr(ret.value)) >= COMPACTION_THRESHOLD

\* C19: when a set of a value whose serialized size is at least the
\* compaction threshold has returned, get returns the value and at least
\* one compaction has run on the store (the active segment of a store
\* opened on a fresh directory is no longer segment 0).
C19_LargeValueCompacts ==
    LargeSetReturned =>
        /\ get(Self, files, ret.key, NoFault) = Some(ret.value)
        /\ log_index > 0

\* C19, amended: such a set round-trips through get, and it goes on into
\* compact exactly when uncompacted, with the length of the entry the set
\* replaces added if there is one, exceeds the threshold; the size of the
\* value written does not count. So the first set of a key on a store with
\* no dead bytes starts no compaction, and a set that replaces a value of
\* that size always does.
C19_LargeValueCompactsOnOverwrite ==
    /\ [](LargeSetReturned => get(Self, files, ret.key, NoFault) = Some(ret.value))
    /\ [][(AtRest /\ nops' = nops + 1 /\ ret'.op = "set"
           /\ Len(EncodeStr(ret'.value)) >= COMPACTION_THRESHOLD) =>
             LET dead == IF ret'.key \in DOMAIN index
                         THEN uncompacted + index[ret'.key].length
                         ELSE uncompacted
             IN /\ (pc' = "compact") <=> (dead > COMPACTION_THRESHOLD)
                /\ (ret'.key \notin DOMAIN index /\ uncompacted = 0) => pc' = "idle"
                /\ (ret'.key \in DOMAIN index
                    /\ index[ret'.key].length > COMPACTION_THRESHOLD)
                      => pc' = "compact"]_vars

C19_Witness ==
    /\ LargeSetReturned /\ nops = 2
    /\ log_index = 2
    /\ files[1] = EncodeCommand(SetCmd(ret.key, LargeValue))
    /\ get(Self, files, ret.key, NoFault) = Some(LargeValue)

\* C20: at every time in the history of a Store (Open, set, remove, each
\* step of a compaction, release and Open again) the index holds at most
\* as many keys as there are distinct keys that were ever passed to set.
C20_IndexWithinKeysEverSet ==
    Cardinality(DOMAIN index) <= Cardinality(ever_set)

C20_Witness ==
    /\ opened /\ opens = 1 /\ ret.op = "open"
    /\ log_index >= 2
    /\ ever_set = Keys
    /\ Cardinality(DOMAIN index) = 1

\* compact returns Ok in this step.
CompactReturnsOk ==
    pc = "compact_delete" /\ pc' = "idle" /\ opened' /\ ret'.res.t = "Ok"

\* C21: compact takes C = A + 1 for the active segment A it starts with,
\* and when it returns Ok the segment files of the directory, and the
\* readers, are exactly C and N = C + 1; C holds one Set record for each key
\* of the index and nothing else; every index entry points into C; N is
\* the active segment; uncompacted is 0.
C21_CompactionPostcondition ==
    /\ [][(pc = "compact" /\ pc' = "compact_n") =>
             compaction_index' = log_index + 1]_vars
    /\ [][CompactReturnsOk =>
             LET C == compaction_index
                 N == compaction_index + 1
                 recs == load(files'[C])
             IN /\ DOMAIN files' = {C, N}
                /\ readers' = {C, N}
                /\ log_index' = N
                /\ uncompacted' = 0
                /\ \A k \in DOMAIN index' : index'[k].log_index = C
                /\ Len(recs) = Cardinality(DOMAIN index')
                /\ \A i \in DOMAIN recs :
                      /\ recs[i].ok /\ recs[i].cmd.type = "Set"
                      /\ recs[i].cmd.key \in DOMAIN index'
                /\ \A k \in DOMAIN index' :
                      \E i \in DOMAIN recs : recs[i].cmd.key = k]_vars

C21_Witness ==
    /\ AtRest /\ ret.op = "set" /\ ret.res.t = "Ok"
    /\ uncompacted = 0 /\ log_index = 4 /\ DOMAIN files = {3, 4}
    /\ DOMAIN index = Keys
    /\ \A k \in Keys : index[k].log_index = 3

\* A segment file is deleted in this step.
FileDeleted == \E li \in DOMAIN files : li \notin DOMAIN files'

\* C22: a step of compact deletes an old segment file only when the loop
\* over the index has ended with every key done: each index entry points
\* into C and C holds the Set record of that key at the entry's offset. The
\* steps before the deletion loop delete nothing, so a compaction whose
\* rewriting loop fails on a read or a write deletes no file.
C22_RewriteBeforeDelete ==
    /\ [][FileDeleted =>
             /\ pc = "compact_delete" /\ todo = {}
             /\ files[compaction_index] = files'[compaction_index]
             /\ \A k \in DOMAIN index :
                   /\ index[k].log_index = compaction_index
                   /\ \E i \in DOMAIN load(files[compaction_index]) :
                         LET rec == load(files[compaction_index])[i] IN
                         /\ rec.ok /\ rec.cmd.type = "Set" /\ rec.cmd.key = k
                         /\ rec.offset = index[k].offset
                         /\ rec.length = index[k].length]_vars
    /\ [][(pc \in {"compact", "compact_n", "compact_loop"}) => ~FileDeleted]_vars
    /\ [][(pc # "idle" /\ pc' = "idle" /\ ret'.res.t \in {"Decode", "Encode"})
             => (pc = "compact_loop" /\ DOMAIN files' = DOMAIN files
                 /\ \A li \in old_logs(readers, compaction_index) :
                       li \in DOMAIN files')]_vars

C22_Witness ==
    /\ pc = "compact_delete" /\ old_log_indices = {}
    /\ DOMAIN index = Keys /\ conn.id = 3
    /\ DOMAIN files = {compaction_index, log_index}

\* The compaction segment of the running compact.
RunningC == IF pc = "compact" THEN log_index + 1 ELSE compaction_index

\* C23: when the set that ran compact returns, with Ok or with an error,
\* the index entries are either all in the compaction segment C or none of
\* them is: no return leaves some entries in C and others in older
\* segments.
C23_IndexSwitchedAtomically ==
    [][(pc # "idle" /\ pc' = "idle" /\ opened') =>
          \/ \A k \in DOMAIN index' : index'[k].log_index = RunningC
          \/ \A k \in DOMAIN index' : index'[k].log_index # RunningC]_vars

\* C24: during compact the active segment changes to N only in a step
\* that starts with nothing left to rewrite and every index entry already
\* in C; and a compact that fails in its rewriting loop returns with the
\* active segment it started with, C - 1.
C24_ActiveSwitchedAfterRewrite ==
    /\ [][(opened /\ opened' /\ pc # "idle" /\ log_index' # log_index) =>
            /\ log_index' = RunningC + 1
            /\ todo = {}
            /\ \A k \in DOMAIN index : index[k].log_index = RunningC]_vars
    /\ [][(pc = "compact_loop" /\ pc' = "idle" /\ opened' /\ ret'.res.t # "Ok") =>
            log_index' = compaction_index - 1]_vars

\* A step in which Store::set is called and its append succeeds.
SetAppended ==
    /\ AtRest /\ nops' = nops + 1 /\ ret'.op = "set"
    /\ ret'.res.t \in {"Ok", "Pending"}

\* C25: a set whose append succeeded goes on into compact, before it
\* returns, exactly when uncompacted plus the length of the entry it
\* replaced (if any) is greater than the threshold, and no other call starts
\* before compact has ended; so uncompacted is at most the threshold
\* whenever a set has returned Ok, and a set on a store whose counter is 0
\* compacts only if the entry it replaces is itself longer than the
\* threshold.
C25_CompactsIffOverThreshold ==
    /\ [][SetAppended =>
            LET dead == IF ret'.key \in DOMAIN index
                        THEN uncompacted + index[ret'.key].length
                        ELSE uncompacted
            IN /\ uncompacted' = dead
               /\ (pc' = "compact") <=> (dead > COMPACTION_THRESHOLD)
               /\ (pc' = "compact") <=> (ret'.res.t = "Pending")
               /\ (uncompacted = 0 /\ pc' = "compact") =>
                     /\ ret'.key \in DOMAIN index
                     /\ index[ret'.key].length > COMPACTION_THRESHOLD]_vars
    /\ [][(pc # "idle" /\ opened') => nops' = nops]_vars
    /\ []((AtRest /\ ret.op = "set" /\ ret.res.t = "Ok") =>
              uncompacted <= COMPACTION_THRESHOLD)

C25_Witness ==
    /\ AtRest /\ ret.op = "set" /\ ret.res.t = "Ok"
    /\ log_index = 2 /\ files[2] # <<>>
    /\ uncompacted = COMPACTION_THRESHOLD

\* A step in which Store::remove is called and returns Ok.
RemoveReturnedOk ==
    AtRest /\ nops' = nops + 1 /\ ret'.op = "remove" /\ ret'.res.t = "Ok"

\* C26: a remove that returns Ok appends the bytes of one Remove record for
\* its key to the active segment and to no other file, takes the key out of
\* the index, and adds to uncompacted the length of the entry it removed
\* plus the length of the Remove record.
C26_RemoveAccounting ==
    [][RemoveReturnedOk =>
         LET record == EncodeCommand(RemoveCmd(ret'.key)) IN
         /\ files' = [files EXCEPT ![log_index] = files[log_index] \o record]
         /\ index' = MapDel(index, ret'.key)
         /\ uncompacted' = uncompacted + index[ret'.key].length + Len(record)]_vars

\* The sum of f over the set S.
RECURSIVE SumOver(_, _)
SumOver(S, f) ==
    IF S = {} THEN 0
    ELSE LET x == CHOOSE y \in S : TRUE IN f[x] + SumOver(S \ {x}, f)

\* The bytes of the records of the directory that no index entry points at.
DeadBytes(fls, idx) ==
    SumOver(DOMAIN fls, [li \in DOMAIN fls |-> Len(fls[li])])
      - SumOver(DOMAIN idx, [k \in DOMAIN idx |-> idx[k].length])

\* C27: replay counts, for a Set over a key that has an entry, the length
\* of the entry it replaces, and for a Remove its own length plus the
\* length of the entry it removes; so when Open has returned, uncompacted
\* is the number of bytes of the directory's records that are dead
\* (replaced Sets, removed Sets and Remove records).
C27_ReplayCountsDeadBytes ==
    [][(~opened /\ opened') => uncompacted' = DeadBytes(files', index')]_vars

\* The largest segment index of the directory fls.
MaxIndex(fls) == CHOOSE li \in DOMAIN fls : \A lj \in DOMAIN fls : lj <= li

\* C28: whenever no call is running on an open store, also after a set
\* whose compact failed, the active segment is the largest segment of the
\* directory; a segment file that compact creates has an index greater than
\* every index of the directory; and the active index never decreases,
\* an Open after a release included.
C28_ActiveIsLargest ==
    /\ [](AtRest => log_index = MaxIndex(files))
    /\ [][\A li \in DOMAIN files' \ DOMAIN files :
             pc # "idle" => \A lj \in DOMAIN files : lj < li]_vars
    /\ [][(opened /\ opened') => log_index' >= log_index]_vars
    /\ [][(~opened /\ opened' /\ DOMAIN files # {}) =>
             log_index' >= MaxIndex(files)]_vars

\* C29: as long as the store is open (between calls, between the steps of
\* compact, after a call that returned an error) the segment of every index
\* entry has a reader in the store and a file in the directory, and no call
\* ends in the 'Missing reader' panic.
C29_IndexEntriesHaveReaders ==
    /\ opened => \A k \in DOMAIN index :
                    /\ index[k].log_index \in readers
                    /\ index[k].log_index \in DOMAIN files
    /\ ret.res.t # "Panic"

\* s is a prefix of t.
IsPrefix(s, t) == Len(s) <= Len(t) /\ SubSeq(t, 1, Len(s)) = s

\* C30: a step never changes a byte a segment file already has: as long as
\* the file exists, its old content is a prefix of its new content. A set
\* or a remove changes no file but the active segment, and a step of
\* compact changes no existing file but C, so neither the segment that was
\* active before nor an older one.
C30_SegmentsAppendOnly ==
    /\ [][\A li \in DOMAIN files \cap DOMAIN files' :
             IsPrefix(files[li], files'[li])]_vars
    /\ [][(AtRest /\ nops' = nops + 1) =>
             /\ DOMAIN files' = DOMAIN files
             /\ \A li \in DOMAIN files \ {log_index} : files'[li] = files[li]]_vars
    /\ [][(opened /\ pc # "idle") =>
             \A li \in (DOMAIN files \cap DOMAIN files') \ {RunningC} :
                 files'[li] = files[li]]_vars

C30_Witness ==
    /\ opened /\ pc = "compact_loop" /\ todo # {}
    /\ files[compaction_index] # <<>>
    /\ files[compaction_index - 1] # <<>>

\* C31: while the server waits in read_mp on a stream whose peer has sent
\* nothing complete and has not closed, it accepts no connection and
\* serves no request: no accept and no step of its own is enabled, and
\* the only steps are the peer's (it sends or closes) and another client's
\* connecting, which leave the connection count, the engine and the files
\* as they are and the other client's request unanswered.
C31_SilentPeerBlocksServer ==
    /\ [](conn.state = "reading" =>
             /\ ~ENABLED AcceptClient
             /\ ~ENABLED AcceptSilent
             /\ ~ENABLED Accept
             /\ ~ENABLED StallServes)
    /\ [][conn.state = "reading" =>
             /\ conn'.id = conn.id
             /\ conn'.calls = 0 /\ conn'.responses = <<>>
             /\ nops' = nops
             /\ UNCHANGED <<files, storeVars, pc, ret>>
             /\ client.state = "calling" => client' = client
             /\ conn'.state = "reading" => conn' = conn]_vars

C31_Witness ==
    /\ conn.state = "reading" /\ conn.id = 2
    /\ client.state = "calling"
    /\ DOMAIN index # {}

\* C32: the server makes at most one engine call for each connection it
\* accepts. A second call on a Client handle is never dispatched: from the
\* moment it writes its request until it returns, the connection count, the
\* engine calls, the store and the files stay as they are, and it returns
\* an error (its write or its read fails), never a result.
C32_OneRequestPerConnection ==
    /\ [](conn.calls <= 1)
    /\ [][(client'.state \in {"calling_again", "returned_again"}) =>
             /\ conn'.id = conn.id /\ conn'.calls = conn.calls
             /\ nops' = nops
             /\ UNCHANGED <<files, storeVars, pc, ret>>]_vars
    /\ [](client.state = "calling_again" => ~ENABLED HandleServes)
    /\ [](client.state = "returned_again" =>
             client.result.t \in {"Encode", "Decode"})

C32_Witness ==
    /\ client.state = "returned_again" /\ client.op = "get"
    /\ client.result = Res("Decode")
    /\ conn.request = Request("Set", client.key, <<118>>)
    /\ conn.responses = <<ResponseOk>> /\ conn.calls = 1
    /\ get(Self, files, client.key, NoFault) = Some(<<118>>)

\* A step in which Store::set or Store::remove is called and its append
\* fails.
AppendFailed ==
    /\ AtRest /\ nops' = nops + 1 /\ ret'.op \in {"set", "remove"}
    /\ ret'.res.t \notin {"Ok", "Pending", "KeyNotFound"}

\* C33: a set or remove whose append fails returns the writer's error, and
\* the index, uncompacted, the readers and the active segment are exactly
\* as before the call; a get of any key returns after it what it returned
\* before it.
C33_FailedAppendChangesNoIndex ==
    [][AppendFailed =>
         /\ ret'.res.t = "Encode" /\ pc' = "idle" /\ opened'
         /\ UNCHANGED <<index, uncompacted, readers, log_index>>
         /\ \A k \in Keys :
               get(Self, files, k, NoFault)' = get(Self, files, k, NoFault)]_vars

C33_Witness ==
    /\ AtRest /\ ret.op = "set" /\ ret.res.t = "Encode"
    /\ ret.key \in DOMAIN index
    /\ kv[ret.key] # Some(ret.value)
    /\ index[ret.key].log_index = log_index
    /\ Len(files[log_index]) > index[ret.key].offset - VALUE_OFFSET + index[ret.key].length

\* C34: after any history of set and remove calls that met no error,
\* compactions included, the index that replay builds from the directory
\* is the index the handle holds: the same keys, each with the same
\* segment, offset and length. So whenever the handle is released between
\* calls, the Open after it returns with the index held before the release.
C34_ReplayRebuildsIndex ==
    /\ [](AtRest => /\ open(files).res.t = "Ok"
                    /\ open(files).self.index = index)
    /\ [][(~opened /\ opened') => index' = open(files).self.index]_vars

C34_Witness ==
    /\ AtRest /\ ret.op = "open" /\ released = "release"
    /\ DOMAIN index = Keys
    /\ index[<<106>>].log_index # index[<<107>>].log_index
    /\ log_index > 0

\* A step in which Store::get is called.
GetCalled == AtRest /\ nops' = nops + 1 /\ ret'.op = "get"

\* C35: a get, whatever it returns, leaves the index, uncompacted, the
\* readers, the active segment and its writer and every file as they were,
\* and starts no compaction; for a key with no index entry it returns the
\* empty result, not an error, and only a key with an entry can give a
\* value or an error.
C35_GetChangesNothing ==
    [][GetCalled =>
         /\ UNCHANGED <<files, index, uncompacted, readers, log_index, writer>>
         /\ opened' /\ pc' = "idle"
         /\ ret'.key \notin DOMAIN index => ret'.res = Res("None")
         /\ ret'.key \in DOMAIN index =>
               ret'.res.t \in {"Some", "Io", "Decode", "Panic"}]_vars

C35_Witness ==
    /\ AtRest /\ ret.op = "get" /\ ret.res.t \in {"Io", "Decode"}
    /\ ret.key \in DOMAIN index
    /\ kv[ret.key] = Some(<<118>>)
    /\ get(Self, files, ret.key, NoFault) = Some(<<118>>)
====
